---------------------------- MODULE Spec2Model ----------------------------
(***************************************************************************)
(* Model of the grading pipeline of src/services/gradingService.js.        *)
(*                                                                         *)
(* Strings are sequences of one-character strings, so that trim,           *)
(* toUpperCase, the regular expressions and split are computed character   *)
(* by character.  JavaScript values are tagged records: Undefined,         *)
(* StrV(s) and NumV(n).  Marks are exact integers counted in thousandths   *)
(* of a mark (Milli = one mark); percentages are counted in hundredths of  *)
(* a percent.  Binary floating point error is not modelled.                *)
(***************************************************************************)
EXTENDS Integers, Sequences, FiniteSets

VARIABLES
    isEnabled,      \* this.isEnabled
    metrics,        \* this.metrics
    pc,             \* position of the running call / unit computation
    input,          \* arguments of the running call
    tasks,          \* gradeQuizAttempt: one entry per gradingPromise
    ret,            \* what the call returned or threw
    attempts,       \* the QuizAttempt collection: the stored documents
    requests,       \* the route handlers in flight, each with its loaded
                    \* document, between two awaits
    outbox          \* the invitations emailService has delivered

\* the state of the routes and of their database
dbVars == <<attempts, requests, outbox>>

vars == <<isEnabled, metrics, pc, input, tasks, ret, attempts, requests, outbox>>

\* the grading service is called on its own: no route is being served
NoRoutes ==
    /\ attempts = <<>>
    /\ requests = <<>>
    /\ outbox = <<>>

---------------------------------------------------------------------------
(* Bounds of the model *)

MaxStrLen == 3
MaxKeyLen == 1
MaxQuestions == 2

---------------------------------------------------------------------------
(* JavaScript values and strings *)

Undefined == [t |-> "undefined"]
StrV(s) == [t |-> "string", s |-> s]
NumV(n) == [t |-> "number", n |-> n]
BoolV(b) == [t |-> "boolean", b |-> b]

\* !v is false
Truthy(v) ==
    CASE v.t = "string" -> v.s # <<>>
      [] v.t = "number" -> v.n # 0
      [] v.t = "boolean" -> v.b
      [] OTHER -> FALSE

Digits == <<"0", "1", "2", "3", "4", "5", "6", "7", "8", "9">>

RECURSIVE NatToString(_)
NatToString(n) ==
    IF n < 10 THEN <<Digits[n + 1]>>
    ELSE NatToString(n \div 10) \o <<Digits[(n % 10) + 1]>>

\* String(v)
String(v) ==
    CASE v.t = "string" -> v.s
      [] v.t = "number" -> NatToString(v.n)
      [] OTHER -> <<"u", "n", "d", "e", "f", "i", "n", "e", "d">>

LowerLetters ==
    <<"a", "b", "c", "d", "e", "f", "g", "h", "i", "j", "k", "l", "m",
      "n", "o", "p", "q", "r", "s", "t", "u", "v", "w", "x", "y", "z">>

UpperLetters ==
    <<"A", "B", "C", "D", "E", "F", "G", "H", "I", "J", "K", "L", "M",
      "N", "O", "P", "Q", "R", "S", "T", "U", "V", "W", "X", "Y", "Z">>

IndexIn(c, letters) ==
    IF \E i \in 1..Len(letters) : letters[i] = c
    THEN CHOOSE i \in 1..Len(letters) : letters[i] = c
    ELSE 0

toUpperCase(s) ==
    [i \in 1..Len(s) |->
        IF IndexIn(s[i], LowerLetters) > 0
        THEN UpperLetters[IndexIn(s[i], LowerLetters)]
        ELSE s[i]]

toLowerCase(s) ==
    [i \in 1..Len(s) |->
        IF IndexIn(s[i], UpperLetters) > 0
        THEN LowerLetters[IndexIn(s[i], UpperLetters)]
        ELSE s[i]]

IsSpace(c) == c \in {" ", "\t", "\n"}

IsDigit(c) == IndexIn(c, Digits) > 0

RECURSIVE trimStart(_)
trimStart(s) ==
    IF s # <<>> /\ IsSpace(Head(s)) THEN trimStart(Tail(s)) ELSE s

RECURSIVE trimEnd(_)
trimEnd(s) ==
    IF s # <<>> /\ IsSpace(s[Len(s)])
    THEN trimEnd(SubSeq(s, 1, Len(s) - 1))
    ELSE s

trim(s) == trimEnd(trimStart(s))

\* the match of /^(\d+)/ : the longest run of digits at the start
RECURSIVE LeadingDigits(_)
LeadingDigits(s) ==
    IF s # <<>> /\ IsDigit(Head(s))
    THEN <<Head(s)>> \o LeadingDigits(Tail(s))
    ELSE <<>>

\* x || d
OrDefault(v, d) == IF Truthy(v) THEN v ELSE d

\* array[index] with index counted from 1: undefined outside the array
At(items, i) == IF i \in DOMAIN items THEN items[i] ELSE Undefined

\* the elements of str.split(/\s+/), as a set: the maximal runs of
\* non-blank characters, and the empty string when str is empty or
\* starts or ends with a blank
split(s) ==
    { SubSeq(s, i, j) : <<i, j>> \in
        { p \in (1..Len(s)) \X (1..Len(s)) :
            /\ p[1] <= p[2]
            /\ \A k \in p[1]..p[2] : ~IsSpace(s[k])
            /\ (p[1] = 1 \/ IsSpace(s[p[1] - 1]))
            /\ (p[2] = Len(s) \/ IsSpace(s[p[2] + 1])) } }
    \cup (IF s = <<>> \/ IsSpace(s[1]) \/ IsSpace(s[Len(s)])
          THEN {<<>>} ELSE {})

---------------------------------------------------------------------------
(* Numbers: marks in thousandths, percentages in hundredths *)

Cent == 100
Milli == 10 * Cent

\* Math.round(x * 100) / 100 for x in thousandths (Math.round rounds a
\* half towards plus infinity)
Round2(x) == ((x + 5) \div 10) * 10

\* Math.round(((t / m) * 100) * 100) / 100, in hundredths of a percent
RoundPercent(t, m) == (2 * t * Cent * Cent + m) \div (2 * m)

\* constructor: this.config
maxRetries == 3
fallbackSimilarityThreshold == <<7, 10>>
partialCreditThreshold == <<4, 10>>

\* question.marks || 1, as a number of thousandths
MarksOrOne(question) == OrDefault(question.marks, NumV(Milli)).n

---------------------------------------------------------------------------
(* MCQ grader *)

\* _normalizeMCQAnswer without the trim
_normalizeMCQAnswer_NoTrim(answer) ==
    IF ~Truthy(answer) THEN <<>>
    ELSE LET normalized == toUpperCase(String(answer))
         IN  IF normalized # <<>> /\ Head(normalized) \in {"A", "B", "C", "D"}
             THEN <<Head(normalized)>>
             ELSE IF LeadingDigits(normalized) # <<>>
                  THEN LeadingDigits(normalized)
                  ELSE normalized

\* _normalizeMCQAnswer that matches the letter before it uppercases
_normalizeMCQAnswer_MatchBeforeUpper(answer) ==
    IF ~Truthy(answer) THEN <<>>
    ELSE LET normalized == trim(String(answer))
         IN  IF normalized # <<>> /\ Head(normalized) \in {"A", "B", "C", "D"}
             THEN <<Head(normalized)>>
             ELSE IF LeadingDigits(normalized) # <<>>
                  THEN LeadingDigits(normalized)
                  ELSE toUpperCase(normalized)

_normalizeMCQAnswer(answer) ==
    IF ~Truthy(answer) THEN <<>>
    ELSE LET normalized == toUpperCase(trim(String(answer)))
         IN  IF normalized # <<>> /\ Head(normalized) \in {"A", "B", "C", "D"}
             THEN <<Head(normalized)>>
             ELSE IF LeadingDigits(normalized) # <<>>
                  THEN LeadingDigits(normalized)
                  ELSE normalized

gradeMCQ(question, studentAnswer) ==
    LET normalizedStudent == _normalizeMCQAnswer(studentAnswer)
        normalizedCorrect == _normalizeMCQAnswer(question.answer)
        isCorrect == normalizedStudent = normalizedCorrect
        marks == IF isCorrect THEN MarksOrOne(question) ELSE 0
    IN  [isCorrect |-> isCorrect,
         marks |-> marks,
         explanation |-> IF isCorrect THEN "Correct answer selected."
                                      ELSE "Incorrect."]

---------------------------------------------------------------------------
(* Similarity scorer: the result is the fraction <<numerator, denominator>> *)

\* _calculateSimilarity that divides by the words of the first string
_calculateSimilarity_OverFirst(str1, str2) ==
    IF str1 = <<>> \/ str2 = <<>> THEN <<0, 1>>
    ELSE LET words1 == split(toLowerCase(str1))
             words2 == split(toLowerCase(str2))
             intersection == { w \in words1 : w \in words2 }
         IN  <<Cardinality(intersection), Cardinality(words1)>>

\* _calculateSimilarity that drops the empty words of the split
_calculateSimilarity_DropsEmptyWords(str1, str2) ==
    IF str1 = <<>> \/ str2 = <<>> THEN <<0, 1>>
    ELSE LET words1 == split(toLowerCase(str1)) \ {<<>>}
             words2 == split(toLowerCase(str2)) \ {<<>>}
             intersection == { w \in words1 : w \in words2 }
             union == words1 \cup words2
         IN  IF Cardinality(union) > 0
             THEN <<Cardinality(intersection), Cardinality(union)>>
             ELSE <<0, 1>>

_calculateSimilarity(str1, str2) ==
    IF str1 = <<>> \/ str2 = <<>> THEN <<0, 1>>
    ELSE LET longer == IF Len(str1) > Len(str2) THEN str1 ELSE str2
             words1 == split(toLowerCase(str1))
             words2 == split(toLowerCase(str2))
             intersection == { w \in words1 : w \in words2 }
             union == words1 \cup words2
         IN  IF Len(longer) = 0 THEN <<1, 1>>
             ELSE IF Cardinality(union) > 0
                  THEN <<Cardinality(intersection), Cardinality(union)>>
                  ELSE <<0, 1>>

\* a >= b for fractions with positive denominators
FracGeq(a, b) == a[1] * b[2] >= b[1] * a[2]

\* _gradeWithSimilarity that tests the partial-credit threshold first
_gradeWithSimilarity_PartialThresholdFirst(question, studentAnswer) ==
    LET similarity == _calculateSimilarity(toLowerCase(String(question.answer)),
                                           toLowerCase(String(studentAnswer)))
        maxMarks == MarksOrOne(question)
    IN  IF FracGeq(similarity, partialCreditThreshold)
        THEN [isCorrect |-> TRUE, marks |-> maxMarks,
              explanation |-> "Answer closely matches expected response."]
        ELSE IF FracGeq(similarity, fallbackSimilarityThreshold)
             THEN [isCorrect |-> FALSE, marks |-> maxMarks \div 2,
                   explanation |-> "Partially correct answer."]
             ELSE [isCorrect |-> FALSE, marks |-> 0,
                   explanation |-> "Answer does not match expected response."]

_gradeWithSimilarity(question, studentAnswer) ==
    LET similarity == _calculateSimilarity(toLowerCase(String(question.answer)),
                                           toLowerCase(String(studentAnswer)))
        maxMarks == MarksOrOne(question)
    IN  IF FracGeq(similarity, fallbackSimilarityThreshold)
        THEN [isCorrect |-> TRUE, marks |-> maxMarks,
              explanation |-> "Answer closely matches expected response."]
        ELSE IF FracGeq(similarity, partialCreditThreshold)
             THEN [isCorrect |-> FALSE, marks |-> maxMarks \div 2,
                   explanation |-> "Partially correct answer."]
             ELSE [isCorrect |-> FALSE, marks |-> 0,
                   explanation |-> "Answer does not match expected response."]

---------------------------------------------------------------------------
(* External grading client: validation and the result built from a reply *)

\* _validateAIGrading without the test grading.marks < 0
_validateAIGrading_NoLowerBound(grading, maxMarks) ==
    /\ grading.isCorrect.t = "boolean"
    /\ ~(grading.marks.t # "number" \/ grading.marks.n > maxMarks)
    /\ ~(~Truthy(grading.feedback) \/ grading.feedback.t # "string")

\* _validateAIGrading without the test of grading.feedback
_validateAIGrading_NoFeedbackCheck(grading, maxMarks) ==
    /\ grading.isCorrect.t = "boolean"
    /\ ~(grading.marks.t # "number" \/ grading.marks.n < 0
                                     \/ grading.marks.n > maxMarks)

\* TRUE when _validateAIGrading returns without throwing
_validateAIGrading(grading, maxMarks) ==
    /\ grading.isCorrect.t = "boolean"
    /\ ~(grading.marks.t # "number" \/ grading.marks.n < 0
                                     \/ grading.marks.n > maxMarks)
    /\ ~(~Truthy(grading.feedback) \/ grading.feedback.t # "string")

Min(a, b) == IF a < b THEN a ELSE b

\* the object returned at the end of the try block of _gradeWithAI
AIResult(grading, question) ==
    [isCorrect |-> grading.isCorrect.b,
     marks |-> Min(grading.marks.n, MarksOrOne(question)),
     explanation |-> "AI feedback"]

\* one attempt of _gradeWithAI succeeds: the reply arrived before the
\* timeout, parsed as JSON and passed the validation
AttemptSucceeds(outcome, question) ==
    /\ outcome.kind = "json"
    /\ _validateAIGrading(outcome.grading, MarksOrOne(question))

---------------------------------------------------------------------------
(* Descriptive grader: the synchronous part, up to the first await *)

NoAnswerResult ==
    [isCorrect |-> FALSE, marks |-> 0, explanation |-> "No answer provided."]

\* gradeDescriptiveAnswer that tries the AI grading whether or not it is
\* enabled
gradeDescriptiveAnswer_IgnoresEnabled(question, studentAnswer, options, enabled) ==
    IF ~Truthy(studentAnswer)
    THEN [kind |-> "return", result |-> NoAnswerResult]
    ELSE IF studentAnswer.t # "string"
    THEN [kind |-> "throw"]
    ELSE IF trim(studentAnswer.s) = <<>>
    THEN [kind |-> "return", result |-> NoAnswerResult]
    ELSE IF options.useAI # BoolV(FALSE)
    THEN [kind |-> "ai"]
    ELSE [kind |-> "return",
          result |-> _gradeWithSimilarity(question, studentAnswer)]

\* gradeDescriptiveAnswer that tests the answer without trimming it
gradeDescriptiveAnswer_NoTrimCheck(question, studentAnswer, options, enabled) ==
    IF ~Truthy(studentAnswer)
    THEN [kind |-> "return", result |-> NoAnswerResult]
    ELSE IF studentAnswer.t # "string"
    THEN [kind |-> "throw"]
    ELSE IF enabled /\ options.useAI # BoolV(FALSE)
    THEN [kind |-> "ai"]
    ELSE [kind |-> "return",
          result |-> _gradeWithSimilarity(question, studentAnswer)]

\* what gradeDescriptiveAnswer does before it first suspends:
\* "throw" (studentAnswer.trim is not a function), "return" a result,
\* or "ai" (suspended in _gradeWithAI)
gradeDescriptiveAnswer(question, studentAnswer, options, enabled) ==
    IF ~Truthy(studentAnswer)
    THEN [kind |-> "return", result |-> NoAnswerResult]
    ELSE IF studentAnswer.t # "string"
    THEN [kind |-> "throw"]
    ELSE IF trim(studentAnswer.s) = <<>>
    THEN [kind |-> "return", result |-> NoAnswerResult]
    ELSE IF enabled /\ options.useAI # BoolV(FALSE)
    THEN [kind |-> "ai"]
    ELSE [kind |-> "return",
          result |-> _gradeWithSimilarity(question, studentAnswer)]

---------------------------------------------------------------------------
(* Quiz attempt grader: the per-question tasks *)

T_mcq == <<"m", "c", "q">>
T_multiple_choice ==
    <<"m", "u", "l", "t", "i", "p", "l", "e", "-", "c", "h", "o", "i", "c", "e">>
T_short_answer ==
    <<"s", "h", "o", "r", "t", "-", "a", "n", "s", "w", "e", "r">>
T_descriptive ==
    <<"d", "e", "s", "c", "r", "i", "p", "t", "i", "v", "e">>
T_essay == <<"e", "s", "s", "a", "y">>

\* the dispatch with the else branch calling the descriptive grader
Dispatch_UnknownToDescriptive(question) ==
    IF question.type = StrV(T_mcq) \/ question.type = StrV(T_multiple_choice)
    THEN "mcq"
    ELSE "descriptive"

\* the grader the if / else if / else of the map callback selects
Dispatch(question) ==
    IF question.type = StrV(T_mcq) \/ question.type = StrV(T_multiple_choice)
    THEN "mcq"
    ELSE IF question.type = StrV(T_short_answer)
            \/ question.type = StrV(T_descriptive)
         THEN "descriptive"
         ELSE "mcq"

\* Object.assign(gradedAnswer, gradingResult)
Assign(gradedAnswer, gradingResult) ==
    [gradedAnswer EXCEPT !.isCorrect = gradingResult.isCorrect,
                         !.marks = gradingResult.marks,
                         !.explanation = gradingResult.explanation]

\* a catch block that only logs the error
CatchQuestionError_LogOnly(gradedAnswer) == gradedAnswer

\* the catch block of the map callback
CatchQuestionError(gradedAnswer) ==
    [gradedAnswer EXCEPT !.marks = 0,
                         !.isCorrect = FALSE,
                         !.explanation = "Auto-grading failed. Manual review required."]

\* the gradedAnswer object the map callback starts from
NewGradedAnswer(question, studentAnswer) ==
    [studentAnswer |-> studentAnswer,
     correctAnswer |-> question.answer,
     explanation |-> "",
     marks |-> 0,
     isCorrect |-> FALSE]

\* no reply of the model has been accepted
NoReply == [kind |-> "none"]

\* retryCount is the parameter of _gradeWithAI; aiCalls counts the calls of
\* model.generateContent, failed the attempts that ended in the catch block,
\* and reply is the parsed reply that passed the validation
Settled(gradedAnswer, grader, threw, retryCount, aiCalls) ==
    [pc |-> "fulfilled", gradedAnswer |-> gradedAnswer, grader |-> grader,
     threw |-> threw, retryCount |-> retryCount, aiCalls |-> aiCalls,
     failed |-> 0, reply |-> NoReply]

\* the map callback run for one question until it settles or suspends
StartTask(question, rawAnswer, options, enabled) ==
    LET studentAnswer == OrDefault(rawAnswer, StrV(<<>>))
        gradedAnswer == NewGradedAnswer(question, studentAnswer)
    IN  IF Dispatch(question) = "mcq"
        THEN Settled(Assign(gradedAnswer, gradeMCQ(question, studentAnswer)),
                     "mcq", FALSE, 0, 0)
        ELSE LET d == gradeDescriptiveAnswer(question, studentAnswer,
                                             options, enabled)
             IN  CASE d.kind = "return" ->
                        Settled(Assign(gradedAnswer, d.result),
                                "descriptive", FALSE, 0, 0)
                   [] d.kind = "throw" ->
                        Settled(CatchQuestionError(gradedAnswer),
                                "descriptive", TRUE, 0, 0)
                   [] OTHER ->
                        [pc |-> "ai", gradedAnswer |-> gradedAnswer,
                         grader |-> "descriptive", threw |-> FALSE,
                         retryCount |-> 0, aiCalls |-> 1,
                         failed |-> 0, reply |-> NoReply]

---------------------------------------------------------------------------
(* Quiz attempt grader: aggregation *)

\* the reduce with q.marks || 0
RECURSIVE ReduceMaxMarks_NoDefault(_)
ReduceMaxMarks_NoDefault(questions) ==
    IF questions = <<>> THEN 0
    ELSE ReduceMaxMarks_NoDefault(SubSeq(questions, 1, Len(questions) - 1))
         + OrDefault(questions[Len(questions)].marks, NumV(0)).n

\* questions.reduce((sum, q) => sum + (q.marks || 1), 0)
RECURSIVE ReduceMaxMarks(_)
ReduceMaxMarks(questions) ==
    IF questions = <<>> THEN 0
    ELSE ReduceMaxMarks(SubSeq(questions, 1, Len(questions) - 1))
         + MarksOrOne(questions[Len(questions)])

\* the entry pushed for a rejected gradingPromise
RejectedAnswer(question, rawAnswer) ==
    [studentAnswer |-> OrDefault(rawAnswer, StrV(<<>>)),
     correctAnswer |-> question.answer,
     explanation |-> "Grading failed. Using fallback evaluation.",
     marks |-> 0,
     isCorrect |-> FALSE]

\* a forEach that pushes nothing for a question whose grading failed
RECURSIVE ForEachResult_SkipFailed(_, _, _, _)
ForEachResult_SkipFailed(results, questions, studentAnswers, n) ==
    IF n = 0 THEN [gradedAnswers |-> <<>>, totalMarks |-> 0]
    ELSE LET before == ForEachResult_SkipFailed(results, questions,
                                                studentAnswers, n - 1)
         IN  IF results[n].pc = "fulfilled" /\ ~results[n].threw
             THEN [gradedAnswers |->
                       Append(before.gradedAnswers, results[n].gradedAnswer),
                   totalMarks |->
                       before.totalMarks + results[n].gradedAnswer.marks]
             ELSE before

\* a forEach that puts each graded answer in front of the earlier ones
RECURSIVE ForEachResult_Unshift(_, _, _, _)
ForEachResult_Unshift(results, questions, studentAnswers, n) ==
    IF n = 0 THEN [gradedAnswers |-> <<>>, totalMarks |-> 0]
    ELSE LET before == ForEachResult_Unshift(results, questions,
                                             studentAnswers, n - 1)
         IN  IF results[n].pc = "fulfilled"
             THEN [gradedAnswers |->
                       <<results[n].gradedAnswer>> \o before.gradedAnswers,
                   totalMarks |->
                       before.totalMarks + results[n].gradedAnswer.marks]
             ELSE [gradedAnswers |->
                       <<RejectedAnswer(questions[n], At(studentAnswers, n))>>
                           \o before.gradedAnswers,
                   totalMarks |-> before.totalMarks]

\* results.forEach(...): gradedAnswers and totalMarks after the first n results
RECURSIVE ForEachResult(_, _, _, _)
ForEachResult(results, questions, studentAnswers, n) ==
    IF n = 0 THEN [gradedAnswers |-> <<>>, totalMarks |-> 0]
    ELSE LET before == ForEachResult(results, questions, studentAnswers, n - 1)
         IN  IF results[n].pc = "fulfilled"
             THEN [gradedAnswers |->
                       Append(before.gradedAnswers, results[n].gradedAnswer),
                   totalMarks |->
                       before.totalMarks + results[n].gradedAnswer.marks]
             ELSE [gradedAnswers |->
                       Append(before.gradedAnswers,
                              RejectedAnswer(questions[n], At(studentAnswers, n))),
                   totalMarks |-> before.totalMarks]

\* the percentage without the division by maxMarks
Percentage_NoDivision(totalMarks, maxMarks) ==
    IF maxMarks > 0 THEN RoundPercent(totalMarks, Milli) ELSE 0

\* maxMarks > 0 ? (totalMarks / maxMarks) * 100 : 0, rounded as returned
Percentage(totalMarks, maxMarks) ==
    IF maxMarks > 0 THEN RoundPercent(totalMarks, maxMarks) ELSE 0

\* the object gradeQuizAttempt returns
GradingResult(results, questions, studentAnswers) ==
    LET maxMarks == ReduceMaxMarks(questions)
        graded == ForEachResult(results, questions, studentAnswers, Len(results))
    IN  [kind |-> "result",
         gradedAnswers |-> graded.gradedAnswers,
         totalMarks |-> Round2(graded.totalMarks),
         maxMarks |-> maxMarks,
         percentage |-> Percentage(graded.totalMarks, maxMarks),
         totalQuestions |-> Len(questions)]

\* a validation that also rejects an empty list of questions
ValidationError_RejectsEmpty(questions, studentAnswers) ==
    IF ~questions.isArray \/ ~studentAnswers.isArray
    THEN "Questions and studentAnswers must be arrays"
    ELSE IF Len(questions.items) # Len(studentAnswers.items)
            \/ Len(questions.items) = 0
         THEN "Questions and answers arrays must have the same length"
         ELSE ""

\* a validation without the comparison of the lengths
ValidationError_NoLengthCheck(questions, studentAnswers) ==
    IF ~questions.isArray \/ ~studentAnswers.isArray
    THEN "Questions and studentAnswers must be arrays"
    ELSE ""

\* the input validation at the top of gradeQuizAttempt: "" when it passes
ValidationError(questions, studentAnswers) ==
    IF ~questions.isArray \/ ~studentAnswers.isArray
    THEN "Questions and studentAnswers must be arrays"
    ELSE IF Len(questions.items) # Len(studentAnswers.items)
         THEN "Questions and answers arrays must have the same length"
         ELSE ""

---------------------------------------------------------------------------
(* Inputs *)

SeqsUpTo(S, n) == UNION { [1..k -> S] : k \in 0..n }

Arr(items) == [isArray |-> TRUE, items |-> items]
NotArray == [isArray |-> FALSE, items |-> <<>>]

Question(type, answer, marks) == [type |-> type, answer |-> answer, marks |-> marks]

\* the questions of the pipeline runs: every type of the dispatch, an
\* unknown type, a missing type, marks present and absent
Questions ==
    { Question(StrV(T_mcq), StrV(<<"B">>), NumV(2 * Milli)),
      Question(StrV(T_multiple_choice), StrV(<<"1">>), Undefined),
      Question(StrV(T_short_answer), StrV(<<"B", " ", "c">>), NumV(2 * Milli)),
      Question(StrV(T_descriptive), StrV(<<"B">>), Undefined),
      Question(StrV(T_essay), StrV(<<"B">>), NumV(2 * Milli)),
      Question(Undefined, StrV(<<"1">>), Undefined) }

\* student answers: missing, empty, strings, a number
StudentAnswers ==
    { Undefined, StrV(<<"b">>), NumV(1) }

UseAIValues == { Undefined, BoolV(TRUE), BoolV(FALSE) }

Json(isCorrect, marks, feedback) ==
    [kind |-> "json",
     grading |-> [isCorrect |-> isCorrect, marks |-> marks, feedback |-> feedback]]

Feedback == StrV(<<"o", "k">>)

\* what one call of the external model can come to
AIOutcomes(question) ==
    LET m == MarksOrOne(question)
    IN  { [kind |-> "reject"], [kind |-> "timeout"], [kind |-> "badjson"],
          Json(BoolV(TRUE), NumV(m), Feedback),
          Json(BoolV(FALSE), NumV(5), Feedback),
          Json(StrV(<<"y">>), NumV(m), Feedback),
          Json(BoolV(TRUE), NumV(m + 1), Feedback),
          Json(BoolV(TRUE), NumV(0 - 1), Feedback),
          Json(BoolV(TRUE), StrV(<<"1">>), Feedback),
          Json(BoolV(TRUE), NumV(m), Undefined),
          Json(BoolV(TRUE), NumV(m), StrV(<<>>)),
          Json(BoolV(TRUE), NumV(m), NumV(1)) }

---------------------------------------------------------------------------
(* State machine of one gradeQuizAttempt call *)

NoMetrics ==
    [totalGraded |-> 0, successfulGradings |-> 0,
     failedGradings |-> 0, fallbackUsed |-> 0]

Init ==
    /\ isEnabled \in BOOLEAN
    /\ metrics = NoMetrics
    /\ pc = "idle"
    /\ input = [kind |-> "none"]
    /\ tasks = <<>>
    /\ ret = [kind |-> "none"]
    /\ NoRoutes

\* gradeQuizAttempt(questions, studentAnswers, options) up to its await:
\* the validation, then every map callback up to its first suspension
Call(questions, studentAnswers, options) ==
    /\ pc = "idle"
    /\ input' = [kind |-> "call", questions |-> questions,
                 studentAnswers |-> studentAnswers, options |-> options]
    /\ IF ValidationError(questions, studentAnswers) # ""
       THEN /\ metrics' = [metrics EXCEPT !.totalGraded = @ + 1,
                                          !.failedGradings = @ + 1]
            /\ pc' = "thrown"
            /\ ret' = [kind |-> "error",
                       message |-> ValidationError(questions, studentAnswers)]
            /\ tasks' = <<>>
       ELSE /\ tasks' = [i \in 1..Len(questions.items) |->
                            StartTask(questions.items[i],
                                      At(studentAnswers.items, i),
                                      options, isEnabled)]
            /\ pc' = "grading"
            /\ UNCHANGED <<metrics, ret>>
    /\ UNCHANGED isEnabled

\* AISuccess that calls the model once more after the reply was accepted
AISuccess_CallsAgain(i, outcome) ==
    /\ pc = "grading"
    /\ tasks[i].pc = "ai"
    /\ AttemptSucceeds(outcome, input.questions.items[i])
    /\ tasks' = [tasks EXCEPT ![i].pc = "fulfilled",
                              ![i].reply = outcome,
                              ![i].aiCalls = @ + 1,
                              ![i].gradedAnswer =
                                  Assign(@, AIResult(outcome.grading,
                                                     input.questions.items[i]))]
    /\ metrics' = [metrics EXCEPT !.successfulGradings = @ + 1]
    /\ UNCHANGED <<isEnabled, pc, input, ret>>

\* an attempt of _gradeWithAI succeeds: gradeDescriptiveAnswer counts it and
\* returns the result, the map callback assigns it
AISuccess(i, outcome) ==
    /\ pc = "grading"
    /\ tasks[i].pc = "ai"
    /\ AttemptSucceeds(outcome, input.questions.items[i])
    /\ tasks' = [tasks EXCEPT ![i].pc = "fulfilled",
                              ![i].reply = outcome,
                              ![i].gradedAnswer =
                                  Assign(@, AIResult(outcome.grading,
                                                     input.questions.items[i]))]
    /\ metrics' = [metrics EXCEPT !.successfulGradings = @ + 1]
    /\ UNCHANGED <<isEnabled, pc, input, ret>>

\* a test that bounds the attempts instead of the retries
MayRetry_CountsAttempts(retryCount) == retryCount + 1 < maxRetries

\* the test of the catch block of _gradeWithAI
MayRetry(retryCount) == retryCount < maxRetries

\* AIRetry that gives up at once when the timer wins the race
AIRetry_TimeoutNotRetried(i, outcome) ==
    /\ pc = "grading"
    /\ tasks[i].pc = "ai"
    /\ ~AttemptSucceeds(outcome, input.questions.items[i])
    /\ MayRetry(tasks[i].retryCount)
    /\ IF outcome.kind = "timeout"
       THEN /\ tasks' = [tasks EXCEPT ![i].pc = "fulfilled",
                                      ![i].failed = @ + 1,
                                      ![i].gradedAnswer =
                                          Assign(@, _gradeWithSimilarity(
                                                        input.questions.items[i],
                                                        @.studentAnswer))]
            /\ metrics' = [metrics EXCEPT !.fallbackUsed = @ + 1]
       ELSE /\ tasks' = [tasks EXCEPT ![i].retryCount = @ + 1,
                                      ![i].failed = @ + 1,
                                      ![i].aiCalls = @ + 1]
            /\ metrics' = metrics
    /\ UNCHANGED <<isEnabled, pc, input, ret>>

\* AIRetry without the timer of the race: a call of the model that does
\* not answer is awaited for ever
AIRetry_NoTimer(i, outcome) ==
    /\ pc = "grading"
    /\ tasks[i].pc = "ai"
    /\ ~AttemptSucceeds(outcome, input.questions.items[i])
    /\ MayRetry(tasks[i].retryCount)
    /\ tasks' = IF outcome.kind = "timeout"
                THEN [tasks EXCEPT ![i].pc = "pending"]
                ELSE [tasks EXCEPT ![i].retryCount = @ + 1,
                                   ![i].failed = @ + 1,
                                   ![i].aiCalls = @ + 1]
    /\ UNCHANGED <<isEnabled, metrics, pc, input, ret>>

\* an attempt fails and the catch block retries: the backoff sleep, then
\* _gradeWithAI(question, studentAnswer, retryCount + 1) calls the model again
AIRetry(i, outcome) ==
    /\ pc = "grading"
    /\ tasks[i].pc = "ai"
    /\ ~AttemptSucceeds(outcome, input.questions.items[i])
    /\ MayRetry(tasks[i].retryCount)
    /\ tasks' = [tasks EXCEPT ![i].retryCount = @ + 1,
                              ![i].failed = @ + 1,
                              ![i].aiCalls = @ + 1]
    /\ UNCHANGED <<isEnabled, metrics, pc, input, ret>>

\* AIExhausted that falls back without counting the fallback
AIExhausted_NoCount(i, outcome) ==
    /\ pc = "grading"
    /\ tasks[i].pc = "ai"
    /\ ~AttemptSucceeds(outcome, input.questions.items[i])
    /\ ~MayRetry(tasks[i].retryCount)
    /\ tasks' = [tasks EXCEPT ![i].pc = "fulfilled",
                              ![i].failed = @ + 1,
                              ![i].gradedAnswer =
                                  Assign(@, _gradeWithSimilarity(
                                                input.questions.items[i],
                                                @.studentAnswer))]
    /\ UNCHANGED <<isEnabled, metrics, pc, input, ret>>

\* an attempt fails and the catch block rethrows: gradeDescriptiveAnswer
\* counts the fallback and returns the similarity grading
AIExhausted(i, outcome) ==
    /\ pc = "grading"
    /\ tasks[i].pc = "ai"
    /\ ~AttemptSucceeds(outcome, input.questions.items[i])
    /\ ~MayRetry(tasks[i].retryCount)
    /\ tasks' = [tasks EXCEPT ![i].pc = "fulfilled",
                              ![i].failed = @ + 1,
                              ![i].gradedAnswer =
                                  Assign(@, _gradeWithSimilarity(
                                                input.questions.items[i],
                                                @.studentAnswer))]
    /\ metrics' = [metrics EXCEPT !.fallbackUsed = @ + 1]
    /\ UNCHANGED <<isEnabled, pc, input, ret>>

\* Promise.allSettled resolves: aggregation, metrics, return
Finish ==
    /\ pc = "grading"
    /\ \A i \in 1..Len(tasks) : tasks[i].pc \in {"fulfilled", "rejected"}
    /\ ret' = GradingResult(tasks, input.questions.items,
                            input.studentAnswers.items)
    /\ metrics' = [metrics EXCEPT !.totalGraded = @ + 1,
                                  !.successfulGradings = @ + 1]
    /\ pc' = "returned"
    /\ UNCHANGED <<isEnabled, input, tasks>>
    /\ UNCHANGED dbVars

QuestionInputs ==
    {NotArray} \cup { Arr(qs) : qs \in SeqsUpTo(Questions, MaxQuestions) }

AnswerInputs ==
    {NotArray} \cup { Arr(as) : as \in SeqsUpTo(StudentAnswers, MaxQuestions) }

gradeQuizAttempt ==
    /\ pc = "idle"
    /\ \E questions \in QuestionInputs, studentAnswers \in AnswerInputs,
          useAI \in UseAIValues :
            Call(questions, studentAnswers, [useAI |-> useAI])
    /\ UNCHANGED dbVars

AIAttemptSucceeds ==
    /\ pc = "grading"
    /\ \E i \in 1..Len(tasks) :
          \E outcome \in AIOutcomes(input.questions.items[i]) :
             AISuccess(i, outcome)
    /\ UNCHANGED dbVars

AIAttemptFailsRetry ==
    /\ pc = "grading"
    /\ \E i \in 1..Len(tasks) :
          \E outcome \in AIOutcomes(input.questions.items[i]) :
             AIRetry(i, outcome)
    /\ UNCHANGED dbVars

AIAttemptFailsLast ==
    /\ pc = "grading"
    /\ \E i \in 1..Len(tasks) :
          \E outcome \in AIOutcomes(input.questions.items[i]) :
             AIExhausted(i, outcome)
    /\ UNCHANGED dbVars

Next ==
    \/ gradeQuizAttempt
    \/ AIAttemptSucceeds
    \/ AIAttemptFailsRetry
    \/ AIAttemptFailsLast
    \/ Finish

Spec == Init /\ [][Next]_vars

\* a call of the model that is in flight settles: it resolves, rejects or
\* loses the race against the timer
AIAttempt == AIAttemptSucceeds \/ AIAttemptFailsRetry \/ AIAttemptFailsLast

\* the inputs that decide which tasks call the model and which fail: a
\* question graded synchronously and one graded by the model, an answer
\* with and one without a trim method
CompletionQuestions ==
    { Question(StrV(T_mcq), StrV(<<"B">>), NumV(2 * Milli)),
      Question(StrV(T_descriptive), StrV(<<"B">>), Undefined) }

CompletionAnswers == { StrV(<<"b">>), NumV(1) }

\* gradeQuizAttempt called with two arrays of the same length
gradeQuizAttemptValid ==
    /\ pc = "idle"
    /\ \E questions \in SeqsUpTo(CompletionQuestions, MaxQuestions),
          studentAnswers \in SeqsUpTo(CompletionAnswers, MaxQuestions),
          useAI \in UseAIValues :
            /\ ValidationError(Arr(questions), Arr(studentAnswers)) = ""
            /\ Call(Arr(questions), Arr(studentAnswers), [useAI |-> useAI])
    /\ UNCHANGED dbVars

NextValid ==
    \/ gradeQuizAttemptValid
    \/ AIAttemptSucceeds
    \/ AIAttemptFailsRetry
    \/ AIAttemptFailsLast
    \/ Finish

\* the calls on valid input, where every call of the model in flight
\* eventually settles and the event loop eventually runs the continuation
\* of Promise.allSettled
FairSpec ==
    Init /\ [][NextValid]_vars /\ WF_vars(AIAttempt) /\ WF_vars(Finish)

---------------------------------------------------------------------------
(* The MCQ grader on its own: gradeMCQ and _normalizeMCQAnswer applied to  *)
(* every short string over Alphabet and to the strings of the scenarios    *)

Alphabet == {"a", "B", "o", "1", " ", ")"}

OptionA == <<"O", "p", "t", "i", "o", "n", " ", "A">>
OptionB == <<"O", "p", "t", "i", "o", "n", " ", "B">>

MCQStudentAnswers ==
    { StrV(s) : s \in SeqsUpTo(Alphabet, MaxStrLen)
                     \cup {<<"A">>, <<" ", "A", " ">>, OptionA, OptionB} }
    \cup {Undefined}

MCQExpectedAnswers ==
    { StrV(s) : s \in SeqsUpTo(Alphabet, MaxKeyLen) \cup {<<"A">>} }
    \cup {Undefined}

MCQMarks == {Undefined, NumV(2 * Milli)}

InitMCQ ==
    /\ isEnabled = FALSE
    /\ metrics = NoMetrics
    /\ pc = "unit"
    /\ input \in { [kind |-> "mcq",
                    question |-> Question(StrV(T_mcq), answer, marks),
                    studentAnswer |-> studentAnswer] :
                   answer \in MCQExpectedAnswers, marks \in MCQMarks,
                   studentAnswer \in MCQStudentAnswers }
    /\ tasks = <<>>
    /\ ret = [kind |-> "none"]
    /\ NoRoutes

NormalizeAnswer ==
    /\ pc = "unit"
    /\ pc' = "normalized"
    /\ ret' = [kind |-> "normalized",
               value |-> _normalizeMCQAnswer(input.studentAnswer)]
    /\ UNCHANGED <<isEnabled, metrics, input, tasks>>
    /\ UNCHANGED dbVars

GradeMCQ ==
    /\ pc = "unit"
    /\ pc' = "graded"
    /\ ret' = gradeMCQ(input.question, input.studentAnswer)
    /\ UNCHANGED <<isEnabled, metrics, input, tasks>>
    /\ UNCHANGED dbVars

\* _normalizeMCQAnswer applied to its own result
NormalizeAgain ==
    /\ pc = "normalized"
    /\ pc' = "renormalized"
    /\ ret' = [kind |-> "renormalized",
               first |-> ret.value,
               value |-> _normalizeMCQAnswer(StrV(ret.value))]
    /\ UNCHANGED <<isEnabled, metrics, input, tasks>>
    /\ UNCHANGED dbVars

NextMCQ == NormalizeAnswer \/ NormalizeAgain \/ GradeMCQ

SpecMCQ == InitMCQ /\ [][NextMCQ]_vars

---------------------------------------------------------------------------
(* The descriptive grader on its own: one gradeDescriptiveAnswer call on   *)
(* every short answer over DescriptiveAlphabet and on the scenario answer  *)

DescriptiveAlphabet == {" ", "b", "c"}

\* "Paris is the capital of France"
ParisExpected ==
    <<"P", "a", "r", "i", "s", " ", "i", "s", " ", "t", "h", "e",
      " ", "c", "a", "p", "i", "t", "a", "l", " ", "o", "f", " ",
      "F", "r", "a", "n", "c", "e">>

\* "paris capital france"
ParisAnswer ==
    <<"p", "a", "r", "i", "s", " ", "c", "a", "p", "i", "t", "a",
      "l", " ", "f", "r", "a", "n", "c", "e">>

ParisQuestion ==
    Question(StrV(T_descriptive), StrV(ParisExpected), NumV(5 * Milli))

DescriptiveQuestions ==
    { Question(StrV(T_descriptive), StrV(<<"B", " ", "c">>), NumV(2 * Milli)),
      Question(StrV(T_descriptive), StrV(<<"B">>), Undefined),
      ParisQuestion }

DescriptiveAnswers ==
    { StrV(s) : s \in SeqsUpTo(DescriptiveAlphabet, MaxStrLen)
                     \cup {ParisAnswer} }
    \cup {Undefined, NumV(1)}

InitDescriptive ==
    /\ isEnabled \in BOOLEAN
    /\ metrics = NoMetrics
    /\ pc = "unit"
    /\ input \in { [kind |-> "call",
                    questions |-> Arr(<<question>>),
                    studentAnswers |-> Arr(<<studentAnswer>>),
                    options |-> [useAI |-> useAI]] :
                   question \in DescriptiveQuestions,
                   studentAnswer \in DescriptiveAnswers,
                   useAI \in UseAIValues }
    /\ tasks = <<>>
    /\ ret = [kind |-> "none"]
    /\ NoRoutes

\* gradeDescriptiveAnswer(question, studentAnswer, options) up to its
\* return, its throw or its suspension in _gradeWithAI
CallDescriptive ==
    /\ pc = "unit"
    /\ LET question == input.questions.items[1]
           studentAnswer == input.studentAnswers.items[1]
           gradedAnswer == NewGradedAnswer(question, studentAnswer)
           d == gradeDescriptiveAnswer(question, studentAnswer,
                                       input.options, isEnabled)
       IN  CASE d.kind = "return" ->
                  /\ tasks' = <<Settled(Assign(gradedAnswer, d.result),
                                        "descriptive", FALSE, 0, 0)>>
                  /\ pc' = "grading"
                  /\ ret' = ret
             [] d.kind = "throw" ->
                  /\ tasks' = <<>>
                  /\ pc' = "thrown"
                  /\ ret' = [kind |-> "error",
                             message |-> "studentAnswer.trim is not a function"]
             [] OTHER ->
                  /\ tasks' = <<[pc |-> "ai", gradedAnswer |-> gradedAnswer,
                                 grader |-> "descriptive", threw |-> FALSE,
                                 retryCount |-> 0, aiCalls |-> 1,
                                 failed |-> 0, reply |-> NoReply]>>
                  /\ pc' = "grading"
                  /\ ret' = ret
    /\ UNCHANGED <<isEnabled, metrics, input>>
    /\ UNCHANGED dbVars

\* gradeDescriptiveAnswer returns its grading to the caller
ReturnDescriptive ==
    /\ pc = "grading"
    /\ tasks[1].pc = "fulfilled"
    /\ pc' = "descriptive_graded"
    /\ ret' = [kind |-> "graded",
               isCorrect |-> tasks[1].gradedAnswer.isCorrect,
               marks |-> tasks[1].gradedAnswer.marks,
               explanation |-> tasks[1].gradedAnswer.explanation]
    /\ UNCHANGED <<isEnabled, metrics, input, tasks>>
    /\ UNCHANGED dbVars

NextDescriptive ==
    \/ CallDescriptive
    \/ AIAttemptSucceeds
    \/ AIAttemptFailsRetry
    \/ AIAttemptFailsLast
    \/ ReturnDescriptive

SpecDescriptive == InitDescriptive /\ [][NextDescriptive]_vars

---------------------------------------------------------------------------
(* The descriptive grader against a scripted model: the k-th call of       *)
(* model.generateContent comes to the k-th outcome of the script           *)

ScriptedQuestion ==
    Question(StrV(T_descriptive), StrV(<<"B", " ", "c">>), NumV(2 * Milli))

Scripts == [1..(maxRetries + 1) -> AIOutcomes(ScriptedQuestion)]

InitScripted ==
    /\ isEnabled = TRUE
    /\ metrics = NoMetrics
    /\ pc = "unit"
    /\ input \in { [kind |-> "call",
                    questions |-> Arr(<<ScriptedQuestion>>),
                    studentAnswers |-> Arr(<<StrV(<<"b">>)>>),
                    options |-> [useAI |-> Undefined],
                    script |-> script] : script \in Scripts }
    /\ tasks = <<>>
    /\ ret = [kind |-> "none"]
    /\ NoRoutes

\* the outcome of the call of the model that is in flight
ScriptedOutcome == input.script[tasks[1].aiCalls]

ScriptedAttemptSucceeds ==
    /\ pc = "grading"
    /\ AISuccess(1, ScriptedOutcome)
    /\ UNCHANGED dbVars

ScriptedAttemptFailsRetry ==
    /\ pc = "grading"
    /\ AIRetry(1, ScriptedOutcome)
    /\ UNCHANGED dbVars

ScriptedAttemptFailsLast ==
    /\ pc = "grading"
    /\ AIExhausted(1, ScriptedOutcome)
    /\ UNCHANGED dbVars

NextScripted ==
    \/ CallDescriptive
    \/ ScriptedAttemptSucceeds
    \/ ScriptedAttemptFailsRetry
    \/ ScriptedAttemptFailsLast
    \/ ReturnDescriptive

SpecScripted == InitScripted /\ [][NextScripted]_vars

\* the await of the race settles: the model has answered or failed, or the
\* timer has fired
ScriptedAttempt ==
    \/ ScriptedAttemptSucceeds
    \/ ScriptedAttemptFailsRetry
    \/ ScriptedAttemptFailsLast

\* the service with an API key, before the call and its script are chosen
InitFairScripted ==
    /\ isEnabled = TRUE
    /\ metrics = NoMetrics
    /\ pc = "idle"
    /\ input = [kind |-> "none"]
    /\ tasks = <<>>
    /\ ret = [kind |-> "none"]
    /\ NoRoutes

\* the arguments of the call and the outcomes the model will come to
\* the scripts of the run under fairness: every attempt times out, is
\* rejected, or replies with a grading that passes or fails validation
TimeoutOutcomes ==
    { [kind |-> "timeout"], [kind |-> "reject"],
      Json(BoolV(TRUE), NumV(MarksOrOne(ScriptedQuestion)), Feedback),
      Json(BoolV(TRUE), NumV(MarksOrOne(ScriptedQuestion)), Undefined) }

TimeoutScripts == [1..(maxRetries + 1) -> TimeoutOutcomes]

ChooseScript ==
    /\ pc = "idle"
    /\ \E script \in TimeoutScripts :
          input' = [kind |-> "call",
                    questions |-> Arr(<<ScriptedQuestion>>),
                    studentAnswers |-> Arr(<<StrV(<<"b">>)>>),
                    options |-> [useAI |-> Undefined],
                    script |-> script]
    /\ pc' = "unit"
    /\ UNCHANGED <<isEnabled, metrics, tasks, ret>>
    /\ UNCHANGED dbVars

NextFairScripted ==
    \/ ChooseScript
    \/ CallDescriptive
    \/ ScriptedAttemptSucceeds
    \/ ScriptedAttemptFailsRetry
    \/ ScriptedAttemptFailsLast
    \/ ReturnDescriptive

\* the timers of the race and of the backoff fire, and the synchronous code
\* of gradeDescriptiveAnswer runs
FairScripted ==
    /\ InitFairScripted
    /\ [][NextFairScripted]_vars
    /\ WF_vars(CallDescriptive)
    /\ WF_vars(ScriptedAttempt)
    /\ WF_vars(ReturnDescriptive)

---------------------------------------------------------------------------
(* The similarity scorer on its own: _calculateSimilarity applied to every *)
(* pair of short strings over SimilarityAlphabet, in both orders           *)

SimilarityAlphabet == {" ", "b", "B"}

SimilarityStrings == SeqsUpTo(SimilarityAlphabet, MaxStrLen)

InitSimilarity ==
    /\ isEnabled = FALSE
    /\ metrics = NoMetrics
    /\ pc = "unit"
    /\ input \in { [kind |-> "similarity", str1 |-> str1, str2 |-> str2] :
                   str1 \in SimilarityStrings, str2 \in SimilarityStrings }
    /\ tasks = <<>>
    /\ ret = [kind |-> "none"]
    /\ NoRoutes

CalculateSimilarity ==
    /\ pc = "unit"
    /\ pc' = "similarity"
    /\ ret' = [kind |-> "similarity",
               forward |-> _calculateSimilarity(input.str1, input.str2),
               backward |-> _calculateSimilarity(input.str2, input.str1)]
    /\ UNCHANGED <<isEnabled, metrics, input, tasks>>
    /\ UNCHANGED dbVars

NextSimilarity == CalculateSimilarity

SpecSimilarity == InitSimilarity /\ [][NextSimilarity]_vars

---------------------------------------------------------------------------
(* routes/studentQuiz.js: the start, flag and submit requests on one       *)
(* attempt. The server runs the handlers concurrently: a handler loads the *)
(* stored document, changes its copy, and saves it after an await          *)

MaxInFlight == 2
MaxCheatLogs == 5

\* const threshold = 4
threshold == 4

\* x ?? d
Nullish(v, d) == IF v = Undefined THEN d ELSE v

\* quiz.questions of the attempt's quiz: answer and marks of each question
AttemptQuiz ==
    <<[answer |-> StrV(<<"B">>), marks |-> NumV(Milli)],
      [answer |-> StrV(<<"c">>), marks |-> Undefined]>>

\* req.body.answers of the submit requests
SubmittedAnswers ==
    { <<StrV(<<" ", "b">>), StrV(<<"C">>)>>, <<StrV(<<"b">>)>>, <<>> }

\* the loop body of the submit handler for question i
SubmitGradeOne(questions, answers, i) ==
    LET q == questions[i]
        studentAns == Nullish(At(answers, i), StrV(<<>>))
        marks == Nullish(q.marks, NumV(Milli)).n
        isCorrect ==
            /\ Truthy(q.answer)
            /\ toLowerCase(trim(String(q.answer)))
                 = toLowerCase(trim(String(studentAns)))
    IN  [studentAnswer |-> studentAns, correctAnswer |-> q.answer,
         isCorrect |-> isCorrect, marks |-> marks]

RECURSIVE SumAwarded(_)
SumAwarded(gradedAnswers) ==
    IF gradedAnswers = <<>> THEN 0
    ELSE (IF Head(gradedAnswers).isCorrect THEN Head(gradedAnswers).marks ELSE 0)
           + SumAwarded(Tail(gradedAnswers))

\* quiz.questions.reduce((s, q) => s + (q.marks ?? 1), 0)
RECURSIVE QuizMaxMarks(_)
QuizMaxMarks(questions) ==
    IF questions = <<>> THEN 0
    ELSE Nullish(Head(questions).marks, NumV(Milli)).n
           + QuizMaxMarks(Tail(questions))

\* what the submit handler computes from quiz.questions and req.body.answers
SubmitGrade(questions, answers) ==
    LET gradedAnswers ==
            [i \in 1..Len(questions) |-> SubmitGradeOne(questions, answers, i)]
        totalMarks == SumAwarded(gradedAnswers)
        maxMarks == QuizMaxMarks(questions)
    IN  [answers |-> gradedAnswers,
         totalMarks |-> totalMarks,
         maxMarks |-> maxMarks,
         percentage |-> IF maxMarks > 0
                        THEN RoundPercent(totalMarks, maxMarks) ELSE 0]

\* the document POST /share creates; the schema decides whether totalMarks
\* and percentage start at 0 or unset
NewAttempt(score) ==
    [status |-> "invited", warningCount |-> 0, isCheated |-> FALSE,
     answers |-> <<>>, totalMarks |-> score,
     maxMarks |-> NumV(QuizMaxMarks(AttemptQuiz)), percentage |-> score,
     cheatLogs |-> 0]

\* ['submitted', 'graded'].includes(attempt.status)
AlreadySubmitted(attempt) == attempt.status \in {"submitted", "graded"}

\* attempt.save(): the paths whose value the handler changed are written
\* over the stored document, and the pushed cheat logs are appended to it
SaveAttempt(stored, loaded, changed, pushed) ==
    [f \in DOMAIN stored |->
        IF f = "cheatLogs" THEN stored.cheatLogs + pushed
        ELSE IF changed[f] # loaded[f] THEN changed[f] ELSE stored[f]]

\* the start handler's changes to its copy
StartChanges(attempt) == [attempt EXCEPT !.status = "started"]

\* the flag handler's changes to its copy
FlagChanges(attempt) ==
    LET warned == [attempt EXCEPT !.warningCount = @ + 1]
    IN  IF warned.warningCount >= threshold
        THEN [warned EXCEPT !.isCheated = TRUE,
                            !.status = "submitted",
                            !.totalMarks = NumV(0),
                            !.maxMarks = NumV(QuizMaxMarks(AttemptQuiz)),
                            !.percentage = NumV(0)]
        ELSE warned

\* the submit handler's changes to its copy
SubmitChanges(attempt, answers) ==
    LET g == SubmitGrade(AttemptQuiz, answers)
    IN  [attempt EXCEPT !.answers = g.answers,
                        !.totalMarks = NumV(g.totalMarks),
                        !.maxMarks = NumV(g.maxMarks),
                        !.percentage = NumV(g.percentage),
                        !.status = "graded"]

\* the cheat logs the handlers in flight are about to push
PendingLogs ==
    Cardinality({ i \in DOMAIN requests : requests[i].pushes })

InitAttempt ==
    /\ isEnabled = FALSE
    /\ metrics = NoMetrics
    /\ pc = "routes"
    /\ input = [kind |-> "none"]
    /\ tasks = <<>>
    /\ ret = [kind |-> "none"]
    /\ attempts \in { <<NewAttempt(score)>> : score \in {Undefined, NumV(0)} }
    /\ requests = <<>>
    /\ outbox = <<>>

\* a handler has loaded the attempt and found it open: it goes on to its
\* await with its copy of the document
Loaded(route, changed, pushes) ==
    /\ Len(requests) < MaxInFlight
    /\ requests' = Append(requests, [route |-> route, loaded |-> attempts[1],
                                     changed |-> changed, pushes |-> pushes])
    /\ UNCHANGED <<isEnabled, metrics, pc, input, tasks, ret, attempts, outbox>>

\* POST /attempt/start up to the VPN check or the save
StartRequest ==
    /\ pc = "routes"
    /\ ~AlreadySubmitted(attempts[1])
    /\ \/ Loaded("start", StartChanges(attempts[1]), FALSE)
       \/ /\ attempts[1].cheatLogs + PendingLogs < MaxCheatLogs
          /\ Loaded("start", attempts[1], TRUE)

\* POST /attempt/flag up to the save
FlagRequest ==
    /\ pc = "routes"
    /\ ~AlreadySubmitted(attempts[1])
    /\ attempts[1].cheatLogs + PendingLogs < MaxCheatLogs
    /\ Loaded("flag", FlagChanges(attempts[1]), TRUE)

\* POST /attempt/submit up to the save
SubmitRequest ==
    /\ pc = "routes"
    /\ ~AlreadySubmitted(attempts[1])
    /\ \E answers \in SubmittedAnswers :
          Loaded("submit", SubmitChanges(attempts[1], answers), FALSE)

\* a request on an attempt already submitted is answered 400
RejectedRequest ==
    /\ pc = "routes"
    /\ AlreadySubmitted(attempts[1])
    /\ UNCHANGED vars

\* await attempt.save() of handler i writes
SaveOf(i) ==
    /\ attempts' = <<SaveAttempt(attempts[1], requests[i].loaded,
                                 requests[i].changed,
                                 IF requests[i].pushes THEN 1 ELSE 0)>>
    /\ requests' = [j \in 1..(Len(requests) - 1) |->
                      IF j < i THEN requests[j] ELSE requests[j + 1]]
    /\ UNCHANGED <<isEnabled, metrics, pc, input, tasks, ret, outbox>>

StartSave ==
    /\ pc = "routes"
    /\ \E i \in DOMAIN requests : requests[i].route = "start" /\ SaveOf(i)

FlagSave ==
    /\ pc = "routes"
    /\ \E i \in DOMAIN requests : requests[i].route = "flag" /\ SaveOf(i)

SubmitSave ==
    /\ pc = "routes"
    /\ \E i \in DOMAIN requests : requests[i].route = "submit" /\ SaveOf(i)

\* await attempt.save() rejects: the handler answers 500
SaveFails ==
    /\ pc = "routes"
    /\ \E i \in DOMAIN requests :
          requests' = [j \in 1..(Len(requests) - 1) |->
                         IF j < i THEN requests[j] ELSE requests[j + 1]]
    /\ UNCHANGED <<isEnabled, metrics, pc, input, tasks, ret, attempts, outbox>>

NextAttempt ==
    \/ StartRequest
    \/ FlagRequest
    \/ SubmitRequest
    \/ RejectedRequest
    \/ StartSave
    \/ FlagSave
    \/ SubmitSave
    \/ SaveFails

SpecAttempt == InitAttempt /\ [][NextAttempt]_vars

---------------------------------------------------------------------------
(* routes/quiz.js: the share requests of one quiz, served one after the    *)
(* other. requests is the log of the requests: the last one may be in its  *)
(* loop over req.body.studentEmails, the others have been answered         *)

MaxShares == 2
MaxEmails == 2

\* "a@b.c", the same address as a client may spell it, and "a@b"
Address == <<"a", "@", "b", ".", "c">>
AddressSpelled == <<" ", "A", "@", "b", ".", "c">>
NoDomainDot == <<"a", "@", "b">>

\* the elements of req.body.studentEmails
RawEmails == { StrV(Address), StrV(AddressSpelled), StrV(NoDomainDot), Undefined }

\* emailRegex.test(s) for /^[^\s@]+@[^\s@]+\.[^\s@]+$/
EmailRegexTest(s) ==
    \E i \in 1..Len(s), j \in 1..Len(s) :
        /\ 1 < i /\ i + 1 < j /\ j < Len(s)
        /\ s[i] = "@" /\ s[j] = "."
        /\ \A k \in 1..Len(s) : k # i => (~IsSpace(s[k]) /\ s[k] # "@")

\* String(rawEmail || '').trim().toLowerCase()
NormaliseEmail(rawEmail) ==
    toLowerCase(trim(String(OrDefault(rawEmail, StrV(<<>>)))))

\* Array.from(new Set(studentEmails.map(...).filter(Boolean))), as a set
NormalisedEmails(studentEmails) ==
    { NormaliseEmail(studentEmails[k]) : k \in 1..Len(studentEmails) } \ {<<>>}

\* student.name of the Student records
StudentName == <<"n">>

\* crypto.randomBytes(32).toString('hex'): a token that is not in use
Tokens(docs) == { docs[k].uniqueToken : k \in DOMAIN docs }

Max(S) == IF S = {} THEN 0 ELSE CHOOSE x \in S : \A y \in S : y <= x

FreshToken(request) ==
    1 + Max(Tokens(attempts) \cup Tokens(outbox)
              \cup { request.attemptMap[e].uniqueToken : e \in DOMAIN request.attemptMap })

\* what the database and the mail service do in one pass of the loop:
\* whether the save of a new attempt, the save of a changed attempt and the
\* save after the mail succeed, and what sendQuizInvitation comes to. The
\* first failure ends the pass, so at most one step of a pass fails
AllSucceed == [create |-> TRUE, update |-> TRUE, send |-> "success", mark |-> TRUE]

ShareOutcomes ==
    { AllSucceed,
      [AllSucceed EXCEPT !.create = FALSE],
      [AllSucceed EXCEPT !.update = FALSE],
      [AllSucceed EXCEPT !.send = "failure"],
      [AllSucceed EXCEPT !.send = "throw"],
      [AllSucceed EXCEPT !.mark = FALSE] }

InitShare ==
    /\ isEnabled = FALSE
    /\ metrics = NoMetrics
    /\ pc = "share"
    /\ input = [kind |-> "none"]
    /\ tasks = <<>>
    /\ ret = [kind |-> "none"]
    /\ attempts = <<>>
    /\ requests = <<>>
    /\ outbox = <<>>

LastRequest == requests[Len(requests)]

\* no request is in its loop
ShareIdle == IF requests = <<>> THEN TRUE ELSE LastRequest.pc # "loop"

\* attemptMap: the stored attempts of the normalised emails, by email
PreloadAttempts(emails) ==
    LET found == { e \in emails :
                     \E k \in DOMAIN attempts : attempts[k].studentEmail = e }
    IN  [e \in found |->
            LET k == CHOOSE k \in DOMAIN attempts :
                        /\ attempts[k].studentEmail = e
                        /\ \A l \in DOMAIN attempts :
                              attempts[l].studentEmail = e => l <= k
            IN  [id |-> k,
                 studentName |-> attempts[k].studentName,
                 uniqueToken |-> attempts[k].uniqueToken,
                 emailSent |-> attempts[k].emailSent]]

\* POST /share up to the loop
ShareRequest ==
    /\ pc = "share"
    /\ ShareIdle
    /\ Len(requests) < MaxShares
    /\ \E studentEmails \in SeqsUpTo(RawEmails, MaxEmails),
          forceResend \in BOOLEAN, students \in SUBSET {Address} :
          /\ studentEmails # <<>>
          /\ requests' = Append(requests,
                [forceResend |-> forceResend,
                 studentEmails |-> studentEmails,
                 students |-> students,
                 attemptMap |-> PreloadAttempts(NormalisedEmails(studentEmails)),
                 i |-> 1,
                 pc |-> IF NormalisedEmails(studentEmails) = {}
                        THEN "rejected" ELSE "loop",
                 sent |-> <<>>, failed |-> <<>>, invalid |-> <<>>,
                 alreadySent |-> <<>>])
    /\ UNCHANGED <<isEnabled, metrics, pc, input, tasks, ret, attempts, outbox>>

\* the request after the pass for studentEmails[i]
Continue(request) ==
    [request EXCEPT !.i = @ + 1,
                    !.pc = IF request.i >= Len(request.studentEmails)
                           THEN "done" ELSE "loop"]

\* attempt.save() of an attempt that is stored
Stored(docs, attempt) ==
    [docs EXCEPT ![attempt.id] =
        [studentEmail |-> docs[attempt.id].studentEmail,
         studentName |-> attempt.studentName,
         uniqueToken |-> attempt.uniqueToken,
         emailSent |-> attempt.emailSent]]

\* step 3 of the loop body: the mail with the current token and the save
\* of emailSent
SendInvitation(request, docs, email, attempt, o) ==
    LET link == [email |-> email, token |-> attempt.uniqueToken]
        mail == [email |-> email, uniqueToken |-> attempt.uniqueToken,
                 forceResend |-> request.forceResend]
        marked == [attempt EXCEPT !.emailSent = TRUE]
        remember(a) ==
            [e \in DOMAIN request.attemptMap \cup {email} |->
                IF e = email THEN a ELSE request.attemptMap[e]]
    IN  IF o.send = "success"
        THEN IF o.mark
             THEN [request |-> Continue([request EXCEPT
                                  !.attemptMap = remember(marked),
                                  !.sent = Append(@, link)]),
                   attempts |-> Stored(docs, marked),
                   outbox |-> Append(outbox, mail)]
             ELSE [request |-> Continue([request EXCEPT
                                  !.attemptMap = remember(marked),
                                  !.failed = Append(@, email)]),
                   attempts |-> docs,
                   outbox |-> Append(outbox, mail)]
        ELSE [request |-> Continue([request EXCEPT
                                  !.attemptMap = remember(attempt),
                                  !.failed = Append(@, email)]),
              attempts |-> docs,
              outbox |-> outbox]

\* the loop body for rawEmail = studentEmails[i]
ShareOne(request, o) ==
    LET email == NormaliseEmail(request.studentEmails[request.i])
        student == email \in request.students
        unchanged(r) == [request |-> r, attempts |-> attempts, outbox |-> outbox]
    IN  IF email = <<>> \/ ~EmailRegexTest(email)
        THEN unchanged(Continue([request EXCEPT !.invalid = Append(@, email)]))
        ELSE IF email \in DOMAIN request.attemptMap
        THEN LET attempt == request.attemptMap[email]
                 backfilled ==
                     IF student /\ attempt.studentName = <<>>
                     THEN [attempt EXCEPT !.studentName = StudentName]
                     ELSE attempt
                 renewed ==
                     IF request.forceResend
                     THEN [backfilled EXCEPT !.uniqueToken = FreshToken(request),
                                             !.emailSent = FALSE]
                     ELSE backfilled
             IN  IF attempt.emailSent /\ ~request.forceResend
                 THEN unchanged(Continue([request EXCEPT !.alreadySent =
                          Append(@, [email |-> email,
                                     token |-> attempt.uniqueToken])]))
                 ELSE IF renewed = attempt
                 THEN SendInvitation(request, attempts, email, attempt, o)
                 ELSE IF o.update
                 THEN SendInvitation(request, Stored(attempts, renewed), email,
                                     renewed, o)
                 ELSE unchanged([request EXCEPT !.pc = "error"])
        ELSE LET attempt == [id |-> Len(attempts) + 1,
                             studentName |-> IF student THEN StudentName ELSE <<>>,
                             uniqueToken |-> FreshToken(request),
                             emailSent |-> FALSE]
                 created == Append(attempts,
                                [studentEmail |-> email,
                                 studentName |-> attempt.studentName,
                                 uniqueToken |-> attempt.uniqueToken,
                                 emailSent |-> FALSE])
             IN  IF o.create
                 THEN SendInvitation(request, created, email, attempt, o)
                 ELSE unchanged(Continue([request EXCEPT
                                            !.failed = Append(@, email)]))

\* one pass of the loop of the request being served
ShareStep ==
    /\ pc = "share"
    /\ ~ShareIdle
    /\ \E o \in ShareOutcomes :
          LET after == ShareOne(LastRequest, o)
          IN  /\ requests' = [requests EXCEPT ![Len(requests)] = after.request]
              /\ attempts' = after.attempts
              /\ outbox' = after.outbox
    /\ UNCHANGED <<isEnabled, metrics, pc, input, tasks, ret>>

NextShare == ShareRequest \/ ShareStep

SpecShare == InitShare /\ [][NextShare]_vars

---------------------------------------------------------------------------
(* Properties *)

\* question.marks, 1 when absent
MaxOf(question) ==
    IF question.marks = Undefined THEN Milli ELSE question.marks.n

RECURSIVE SumOfMarks(_)
SumOfMarks(gradedAnswers) ==
    IF gradedAnswers = <<>> THEN 0
    ELSE Head(gradedAnswers).marks + SumOfMarks(Tail(gradedAnswers))

RECURSIVE SumOfMaxOf(_)
SumOfMaxOf(questions) ==
    IF questions = <<>> THEN 0
    ELSE MaxOf(Head(questions)) + SumOfMaxOf(Tail(questions))

\* x rounded to two decimals: the nearest multiple of a hundredth
NearestCent(x) ==
    CHOOSE c \in { 10 * k : k \in 0..((x \div 10) + 1) } : c - 5 <= x /\ x < c + 5

ValidShape ==
    /\ input.kind = "call"
    /\ input.questions.isArray
    /\ input.studentAnswers.isArray
    /\ Len(input.questions.items) = Len(input.studentAnswers.items)

Returned == pc = "returned" /\ ret.kind = "result"

MCQTypes == {StrV(T_mcq), StrV(T_multiple_choice)}
DescriptiveTypes == {StrV(T_short_answer), StrV(T_descriptive)}

\* grading this question with this answer throws inside the map callback:
\* a descriptive question answered with a non-zero number (no trim method)
GradingThrows(question, answer) ==
    /\ question.type \in DescriptiveTypes
    /\ answer.t = "number"
    /\ answer.n # 0

ManualReview(gradedAnswer) ==
    /\ gradedAnswer.marks = 0
    /\ gradedAnswer.isCorrect = FALSE
    /\ gradedAnswer.explanation = "Auto-grading failed. Manual review required."

\* C1: a call with two arrays of equal length returns as many gradedAnswers
\* as there are questions, whatever the mix of questions
C1_OneGradedAnswerPerQuestion ==
    (ValidShape /\ pc \in {"returned", "thrown"}) =>
        /\ Returned
        /\ Len(ret.gradedAnswers) = Len(input.questions.items)

C1_Witness ==
    /\ Returned
    /\ Len(ret.gradedAnswers) >= 2
    /\ \E i, j \in 1..Len(tasks) :
          /\ GradingThrows(input.questions.items[i], input.studentAnswers.items[i])
          /\ tasks[j].grader = "mcq"
          /\ input.questions.items[j].type \notin MCQTypes

\* C2: on every grading path the awarded marks of a graded answer lie
\* between 0 and the marks of its question (1 when absent)
C2_MarksWithinQuestionMarks ==
    /\ pc \in {"grading", "returned"} =>
          \A i \in 1..Len(tasks) :
             tasks[i].pc = "fulfilled" =>
                /\ 0 <= tasks[i].gradedAnswer.marks
                /\ tasks[i].gradedAnswer.marks <= MaxOf(input.questions.items[i])
    /\ Returned =>
          \A i \in 1..Len(ret.gradedAnswers) :
             /\ 0 <= ret.gradedAnswers[i].marks
             /\ ret.gradedAnswers[i].marks <= MaxOf(input.questions.items[i])

C2_Witness ==
    /\ Returned
    /\ \E i, j \in 1..Len(ret.gradedAnswers) :
          /\ ret.gradedAnswers[i].explanation = "AI feedback"
          /\ ret.gradedAnswers[i].marks = 5
          /\ ret.gradedAnswers[j].explanation = "Partially correct answer."
          /\ ret.gradedAnswers[j].marks = Milli
          /\ tasks[j].aiCalls > 0

\* C3: totalMarks is the sum of the marks of the gradedAnswers rounded to two
\* decimals, maxMarks is the sum of the questions' marks (1 when absent), and
\* a question whose grading failed adds 0 to the one and its marks to the other
C3_TotalsAreSums ==
    Returned =>
        /\ ret.totalMarks = NearestCent(SumOfMarks(ret.gradedAnswers))
        /\ ret.maxMarks = SumOfMaxOf(input.questions.items)
        /\ \A i \in 1..Len(ret.gradedAnswers) :
              GradingThrows(input.questions.items[i], input.studentAnswers.items[i])
                 => ret.gradedAnswers[i].marks = 0

C3_Witness ==
    /\ Returned
    /\ SumOfMarks(ret.gradedAnswers) = 5
    /\ ret.totalMarks = 10
    /\ ret.maxMarks = 3 * Milli
    /\ \E i \in 1..Len(ret.gradedAnswers) :
          GradingThrows(input.questions.items[i], input.studentAnswers.items[i])

\* C4: the returned percentage is within [0, 100]
C4_PercentageInRange ==
    Returned => (0 <= ret.percentage /\ ret.percentage <= 100 * Cent)

C4_Witness ==
    /\ Returned
    /\ Len(ret.gradedAnswers) >= 2
    /\ ret.percentage > 0
    /\ ret.percentage < 100 * Cent
    /\ \E i \in 1..Len(ret.gradedAnswers) : ret.gradedAnswers[i].marks = 0

\* C5: when maxMarks is 0 the percentage is 0, and grading no questions
\* returns totalMarks = 0, maxMarks = 0, percentage = 0 without failing
C5_ZeroMaxMarksZeroPercentage ==
    /\ (Returned /\ ret.maxMarks = 0) => ret.percentage = 0
    /\ (pc \in {"grading", "returned", "thrown"}
        /\ input.questions = Arr(<<>>) /\ input.studentAnswers = Arr(<<>>)) =>
          /\ pc # "thrown"
          /\ Returned =>
                (ret.totalMarks = 0 /\ ret.maxMarks = 0 /\ ret.percentage = 0)

C5_Witness ==
    /\ Returned
    /\ input.questions = Arr(<<>>)
    /\ input.studentAnswers = Arr(<<>>)
    /\ ret.maxMarks = 0
    /\ ret.percentage = 0

\* C6: when questions or studentAnswers is not an array, or their lengths
\* differ, the call fails with an error, returns no result and grades nothing
C6_BadShapeFailsWholeCall ==
    (input.kind = "call" /\ ~ValidShape) =>
        /\ pc = "thrown"
        /\ ret.kind = "error"
        /\ tasks = <<>>
        /\ metrics.successfulGradings = 0
        /\ metrics.fallbackUsed = 0

C6_Witness ==
    /\ pc = "thrown"
    /\ input.questions.isArray
    /\ input.studentAnswers.isArray
    /\ Len(input.questions.items) = 2
    /\ Len(input.studentAnswers.items) = 1
    /\ input.questions.items[1].type \in DescriptiveTypes
    /\ isEnabled

\* what grading this question alone can come to: the graded answer of the
\* map callback, with every reply the external model can give
GradedAlone(question, answer) ==
    LET t == StartTask(question, answer, input.options, isEnabled)
    IN  IF t.pc = "fulfilled" THEN {t.gradedAnswer}
        ELSE { Assign(t.gradedAnswer, AIResult(o.grading, question)) :
                  o \in { x \in AIOutcomes(question) :
                             AttemptSucceeds(x, question) } }
             \cup { Assign(t.gradedAnswer,
                           _gradeWithSimilarity(question,
                                                t.gradedAnswer.studentAnswer)) }

\* C7: when grading one question throws, the call still returns: that
\* question gets 0 marks, isCorrect = false and the manual review note, and
\* every other graded answer is what grading its question alone gives
C7_QuestionFailureIsolated ==
    (/\ ValidShape
     /\ pc \in {"grading", "returned", "thrown"}
     /\ \E i \in 1..Len(input.questions.items) :
           GradingThrows(input.questions.items[i], input.studentAnswers.items[i]))
    => /\ pc # "thrown"
       /\ Returned =>
             \A i \in 1..Len(input.questions.items) :
                IF GradingThrows(input.questions.items[i],
                                 input.studentAnswers.items[i])
                THEN ManualReview(ret.gradedAnswers[i])
                ELSE ret.gradedAnswers[i] \in
                        GradedAlone(input.questions.items[i],
                                    input.studentAnswers.items[i])

C7_Witness ==
    /\ Returned
    /\ \E i, j \in 1..Len(ret.gradedAnswers) :
          /\ GradingThrows(input.questions.items[i], input.studentAnswers.items[i])
          /\ ManualReview(ret.gradedAnswers[i])
          /\ ret.gradedAnswers[j].explanation = "AI feedback"
          /\ ret.gradedAnswers[j].marks > 0

\* C8: 'mcq' and 'multiple-choice' are graded by the MCQ grader,
\* 'short-answer' and 'descriptive' by the descriptive grader, every other or
\* missing type by the MCQ grader, without any call of the external model
C8_DispatchByType ==
    pc \in {"grading", "returned"} =>
        \A i \in 1..Len(tasks) :
           LET type == input.questions.items[i].type
               byMCQ == /\ tasks[i].grader = "mcq"
                        /\ tasks[i].aiCalls = 0
                        /\ tasks[i].pc = "fulfilled"
                        /\ tasks[i].gradedAnswer.explanation \in
                              {"Correct answer selected.", "Incorrect."}
               byDescriptive ==
                        /\ tasks[i].grader = "descriptive"
                        /\ tasks[i].gradedAnswer.explanation \notin
                              {"Correct answer selected.", "Incorrect."}
           IN  /\ type \in MCQTypes => byMCQ
               /\ type \in DescriptiveTypes => byDescriptive
               /\ type \notin (MCQTypes \cup DescriptiveTypes) => byMCQ

C8_Witness ==
    /\ pc = "grading"
    /\ \E i, j \in 1..Len(tasks) :
          /\ input.questions.items[i].type = StrV(T_essay)
          /\ tasks[i].grader = "mcq"
          /\ tasks[i].gradedAnswer.isCorrect
          /\ input.questions.items[j].type = StrV(T_short_answer)
          /\ tasks[j].aiCalls > 1

---------------------------------------------------------------------------
(* Properties of the MCQ grader *)

\* the normalization as described: trim, uppercase, then the leading letter
\* A-D, else the leading run of digits, else the whole string; a missing
\* answer counts as the empty string
DescribedNormalization(answer) ==
    IF answer = Undefined THEN <<>>
    ELSE LET s == answer.s
             inner == { i \in 1..Len(s) : ~IsSpace(s[i]) }
             first == CHOOSE i \in inner : \A k \in inner : i <= k
             last == CHOOSE i \in inner : \A k \in inner : k <= i
             u == IF inner = {} THEN <<>> ELSE toUpperCase(SubSeq(s, first, last))
             runs == { n \in 0..Len(u) : \A k \in 1..n : IsDigit(u[k]) }
             run == CHOOSE n \in runs : \A m \in runs : m <= n
         IN  IF u # <<>> /\ u[1] \in {"A", "B", "C", "D"} THEN <<u[1]>>
             ELSE IF run > 0 THEN SubSeq(u, 1, run)
             ELSE u

\* C9: "A", "a)", "Option A" and " A " all normalize to "A", and the
\* question {mcq, answer "B", marks 2} answered "Option B" is graded
\* isCorrect = true, marks = 2
C9_OptionPrefixNormalizes ==
    /\ (pc = "normalized"
        /\ input.studentAnswer \in
              { StrV(<<"A">>), StrV(<<"a", ")">>), StrV(OptionA),
                StrV(<<" ", "A", " ">>) })
          => ret.value = <<"A">>
    /\ (pc = "graded"
        /\ input.question.answer = StrV(<<"B">>)
        /\ input.question.marks = NumV(2 * Milli)
        /\ input.studentAnswer = StrV(OptionB))
          => (ret.isCorrect /\ ret.marks = 2 * Milli)

\* C10: gradeMCQ is all-or-nothing: isCorrect exactly when the two answers
\* have the same normalization as described, marks = question.marks (1 when
\* absent) when correct and 0 otherwise
C10_MCQAllOrNothing ==
    pc = "graded" =>
        /\ ret.isCorrect <=>
              (DescribedNormalization(input.studentAnswer)
                  = DescribedNormalization(input.question.answer))
        /\ ret.marks = IF ret.isCorrect THEN MaxOf(input.question) ELSE 0

C10_Witness ==
    /\ pc = "graded"
    /\ ret.isCorrect
    /\ ret.marks = 2 * Milli
    /\ input.question.answer = StrV(<<"A">>)
    /\ input.studentAnswer = StrV(<<" ", "a", ")">>)


\* C11: normalizing an already normalized MCQ answer changes nothing:
\* normalize(normalize(x)) = normalize(x) for every answer x
C11_NormalizationIdempotent ==
    pc = "renormalized" => ret.value = ret.first

\* the first normalization changed the answer, the second did not
C11_Witness ==
    /\ pc = "renormalized"
    /\ input.studentAnswer = StrV(<<" ", "1", "o">>)
    /\ ret.first = <<"1">>
    /\ ret.value = <<"1">>

---------------------------------------------------------------------------
(* Properties of the descriptive grader *)

\* the arguments of the gradeDescriptiveAnswer call
TheQuestion == input.questions.items[1]
TheAnswer == input.studentAnswers.items[1]

\* the call is past its synchronous part and did not throw
DescriptiveCalled == pc \in {"grading", "descriptive_graded"}

\* a missing, empty or whitespace-only answer
Blank(v) ==
    \/ v = Undefined
    \/ v.t = "string" /\ \A k \in 1..Len(v.s) : IsSpace(v.s[k])

\* a string answer with a character that is not whitespace
NonEmptyAnswer(v) == v.t = "string" /\ ~Blank(v)

AIConfigured == isEnabled /\ input.options.useAI # BoolV(FALSE)

\* C12: gradeDescriptiveAnswer with an empty or whitespace-only answer
\* returns marks 0 and isCorrect false and never calls the external model,
\* whether or not AI grading is enabled and whatever options.useAI is
C12_EmptyAnswerNeverCallsAI ==
    (pc # "unit" /\ Blank(TheAnswer)) =>
        /\ DescriptiveCalled
        /\ tasks[1].pc = "fulfilled"
        /\ tasks[1].aiCalls = 0
        /\ tasks[1].gradedAnswer.marks = 0
        /\ tasks[1].gradedAnswer.isCorrect = FALSE
        /\ pc = "descriptive_graded" => (ret.marks = 0 /\ ret.isCorrect = FALSE)

\* a whitespace-only answer graded with AI grading enabled and requested
C12_Witness ==
    /\ pc = "descriptive_graded"
    /\ isEnabled
    /\ input.options.useAI = BoolV(TRUE)
    /\ TheAnswer = StrV(<<" ", " ">>)
    /\ ret.marks = 0
    /\ ret.explanation = "No answer provided."

\* the grading the task holds is this result
Graded(task, result) ==
    /\ task.gradedAnswer.isCorrect = result.isCorrect
    /\ task.gradedAnswer.marks = result.marks
    /\ task.gradedAnswer.explanation = result.explanation

\* C13: for a non-empty answer with AI grading enabled and options.useAI
\* not false, gradeDescriptiveAnswer never throws; it returns the result of
\* the external model when an attempt succeeds, and when the attempts are
\* exhausted it returns the similarity grading and has incremented
\* fallbackUsed by one
C13_AIResultOrFallback ==
    (pc # "unit" /\ NonEmptyAnswer(TheAnswer) /\ AIConfigured) =>
        /\ DescriptiveCalled
        /\ tasks[1].aiCalls >= 1
        /\ tasks[1].pc = "ai" => metrics.fallbackUsed = 0
        /\ tasks[1].pc = "fulfilled" =>
              \/ /\ tasks[1].reply # NoReply
                 /\ Graded(tasks[1], AIResult(tasks[1].reply.grading, TheQuestion))
                 /\ metrics.fallbackUsed = 0
              \/ /\ tasks[1].reply = NoReply
                 /\ tasks[1].failed = tasks[1].aiCalls
                 /\ Graded(tasks[1], _gradeWithSimilarity(TheQuestion, TheAnswer))
                 /\ metrics.fallbackUsed = 1
        /\ pc = "descriptive_graded" =>
              /\ tasks[1].pc = "fulfilled"
              /\ Graded(tasks[1], ret)

\* every attempt failed and the similarity grading was returned
C13_Witness ==
    /\ pc = "descriptive_graded"
    /\ AIConfigured
    /\ TheQuestion.answer = StrV(<<"B", " ", "c">>)
    /\ TheAnswer = StrV(<<"b">>)
    /\ tasks[1].failed = tasks[1].aiCalls
    /\ tasks[1].aiCalls > 0
    /\ metrics.fallbackUsed = 1
    /\ ret.explanation = "Partially correct answer."
    /\ ret.marks = Milli

\* the task was graded by the similarity fallback
BySimilarity(task) ==
    /\ task.pc = "fulfilled"
    /\ task.reply = NoReply
    /\ ~task.threw

\* the similarity of the expected answer and the student's answer
TheSimilarity == _calculateSimilarity(String(TheQuestion.answer), TheAnswer.s)

\* C14: the similarity fallback gives full marks and isCorrect = true when
\* the similarity is at least 0.7, half of the question's marks and
\* isCorrect = false when it is at least 0.4 and below 0.7, and no marks
\* below 0.4; "paris capital france" against "Paris is the capital of
\* France" for 5 marks with AI disabled gets 2.5 marks and isCorrect = false
C14_SimilarityThresholds ==
    (DescriptiveCalled /\ NonEmptyAnswer(TheAnswer) /\ BySimilarity(tasks[1])) =>
        LET g == tasks[1].gradedAnswer
        IN  /\ FracGeq(TheSimilarity, <<7, 10>>) =>
                  (g.marks = MaxOf(TheQuestion) /\ g.isCorrect)
            /\ (FracGeq(TheSimilarity, <<4, 10>>)
                    /\ ~FracGeq(TheSimilarity, <<7, 10>>)) =>
                  (2 * g.marks = MaxOf(TheQuestion) /\ ~g.isCorrect)
            /\ ~FracGeq(TheSimilarity, <<4, 10>>) =>
                  (g.marks = 0 /\ ~g.isCorrect)
            /\ (TheQuestion = ParisQuestion /\ TheAnswer = StrV(ParisAnswer)) =>
                  (2 * g.marks = 5 * Milli /\ ~g.isCorrect)
            /\ pc = "descriptive_graded" => Graded(tasks[1], ret)

\* the scenario, graded with AI grading disabled by the option
C14_Witness ==
    /\ pc = "descriptive_graded"
    /\ isEnabled
    /\ input.options.useAI = BoolV(FALSE)
    /\ TheQuestion = ParisQuestion
    /\ TheAnswer = StrV(ParisAnswer)
    /\ tasks[1].aiCalls = 0
    /\ 2 * ret.marks = 5 * Milli
    /\ ret.isCorrect = FALSE

---------------------------------------------------------------------------
(* Properties of the external grading client *)

\* _gradeWithAI gave up: every call of the model failed
AllAttemptsFailed(task) ==
    /\ task.pc = "fulfilled"
    /\ task.reply = NoReply
    /\ task.aiCalls > 0

C16_StopsAtFirstSuccess ==
    (DescriptiveCalled /\ tasks[1].reply # NoReply) =>
        /\ tasks[1].pc = "fulfilled"
        /\ tasks[1].failed <= maxRetries
        /\ tasks[1].aiCalls = tasks[1].failed + 1
        /\ Graded(tasks[1], AIResult(tasks[1].reply.grading, TheQuestion))
        /\ pc = "descriptive_graded" => Graded(tasks[1], ret)

\* two failures, then a success: three calls, and the call has returned
C16_Witness ==
    /\ pc = "descriptive_graded"
    /\ tasks[1].reply = Json(BoolV(TRUE), NumV(MaxOf(TheQuestion)), Feedback)
    /\ tasks[1].failed = 2
    /\ tasks[1].aiCalls = 3
    /\ ret.isCorrect
    /\ ret.explanation = "AI feedback"

\* the reply is a grading of the described shape: a boolean isCorrect,
\* numeric marks within [0, question.marks], a string feedback
WellFormedReply(reply, question) ==
    /\ reply.kind = "json"
    /\ reply.grading.isCorrect.t = "boolean"
    /\ reply.grading.marks.t = "number"
    /\ reply.grading.marks.n >= 0
    /\ reply.grading.marks.n <= MaxOf(question)
    /\ reply.grading.feedback.t = "string"

\* C17: a reply of the external model that is not parseable or whose
\* isCorrect is not a boolean, whose marks are not a number within
\* [0, question.marks] or whose feedback is missing or not a string is never
\* returned as a grading: it counts as a failed attempt, which is retried
\* while attempts remain
C17_InvalidReplyNeverReturned ==
    DescriptiveCalled =>
        /\ tasks[1].reply # NoReply =>
              /\ tasks[1].reply = ScriptedOutcome
              /\ WellFormedReply(ScriptedOutcome, TheQuestion)
        /\ tasks[1].gradedAnswer.explanation = "AI feedback" =>
              tasks[1].reply # NoReply
        /\ \A k \in 1..(tasks[1].aiCalls - 1) :
              ~WellFormedReply(input.script[k], TheQuestion) =>
                  /\ tasks[1].failed >= k
                  /\ tasks[1].reply # input.script[k]
        /\ (tasks[1].pc = "fulfilled"
               /\ ~WellFormedReply(ScriptedOutcome, TheQuestion)) =>
              /\ tasks[1].reply = NoReply
              /\ ~MayRetry(tasks[1].retryCount)
              /\ tasks[1].failed = tasks[1].aiCalls
              /\ Graded(tasks[1], _gradeWithSimilarity(TheQuestion, TheAnswer))

\* a grading whose isCorrect is a string was answered by a retry, and
\* the well-formed reply of the retry was returned
C17_Witness ==
    /\ pc = "descriptive_graded"
    /\ input.script[1] = Json(StrV(<<"y">>), NumV(MaxOf(TheQuestion)), Feedback)
    /\ input.script[2] = Json(BoolV(FALSE), NumV(5), Feedback)
    /\ tasks[1].failed = 1
    /\ tasks[1].aiCalls = 2
    /\ tasks[1].reply = input.script[2]
    /\ ret.isCorrect = FALSE
    /\ ret.explanation = "AI feedback"

\* C18: without an API key the external model is never called, whatever the
\* questions and the options; every non-empty answer to a descriptive
\* question is graded by similarity; and nothing fails for want of the key:
\* a well-shaped call returns and only an answer without trim fails a task
C18_NoKeyNoExternalCall ==
    (~isEnabled /\ input.kind = "call") =>
        /\ metrics.fallbackUsed = 0
        /\ pc = "thrown" => ~ValidShape
        /\ \A i \in DOMAIN tasks :
              LET question == input.questions.items[i]
                  answer == At(input.studentAnswers.items, i)
              IN  /\ tasks[i].pc = "fulfilled"
                  /\ tasks[i].aiCalls = 0
                  /\ tasks[i].reply = NoReply
                  /\ tasks[i].threw => GradingThrows(question, answer)
                  /\ (question.type \in DescriptiveTypes
                         /\ NonEmptyAnswer(answer)) =>
                        Graded(tasks[i], _gradeWithSimilarity(question, answer))

\* no key, AI grading requested by the option, and a descriptive answer
\* graded by similarity in a call that returned
C18_Witness ==
    /\ ~isEnabled
    /\ Returned
    /\ input.options.useAI = BoolV(TRUE)
    /\ Len(tasks) = 2
    /\ input.questions.items[1] = Question(StrV(T_short_answer),
                                           StrV(<<"B", " ", "c">>),
                                           NumV(2 * Milli))
    /\ input.studentAnswers.items[1] = StrV(<<"b">>)
    /\ ret.gradedAnswers[1].marks = Milli
    /\ ret.gradedAnswers[1].explanation = "Partially correct answer."

---------------------------------------------------------------------------
(* Properties of the similarity scorer *)

\* equality of two fractions with positive denominators
FracEq(a, b) == a[1] * b[2] = b[1] * a[2]

\* C19: the similarity scorer is symmetric: similarity(a, b) equals
\* similarity(b, a) for every pair of strings, the empty string and strings
\* with whitespace included
C19_SimilaritySymmetric ==
    pc = "similarity" => FracEq(ret.forward, ret.backward)

\* a pair with a leading blank on one side and a partial overlap
C19_Witness ==
    /\ pc = "similarity"
    /\ input.str1 = <<" ", "b">>
    /\ input.str2 = <<"B">>
    /\ ret.forward = <<1, 2>>
    /\ ret.backward = <<1, 2>>

\* C20: the similarity of a non-empty string with itself is exactly 1
C20_SelfSimilarityIsOne ==
    (pc = "similarity" /\ input.str1 = input.str2 /\ input.str1 # <<>>) =>
        /\ ret.forward[2] > 0
        /\ ret.forward[1] = ret.forward[2]

\* a whitespace-only string against itself
C20_Witness ==
    /\ pc = "similarity"
    /\ input.str1 = <<" ">>
    /\ input.str2 = <<" ">>
    /\ ret.forward = <<1, 1>>

\* W(x): the lower-case whitespace-separated words of x
Words(x) == split(toLowerCase(x)) \ {<<>>}

\* |W(a) /\ W(b)| / |W(a) \/ W(b)|, and 0 when an input is empty or when
\* neither input has a word
WordSetJaccard(a, b) ==
    IF a = <<>> \/ b = <<>> \/ Words(a) \cup Words(b) = {}
    THEN <<0, 1>>
    ELSE <<Cardinality(Words(a) \cap Words(b)),
           Cardinality(Words(a) \cup Words(b))>>

\* C21: the similarity of a and b is the Jaccard index of their sets of
\* lower-case whitespace-separated words, so that leading, trailing or
\* repeated whitespace does not change it; it lies in [0, 1] and is 0 when
\* either input is empty
C21_SimilarityIsWordSetJaccard ==
    pc = "similarity" =>
        /\ FracEq(ret.forward, WordSetJaccard(input.str1, input.str2))
        /\ ret.forward[1] >= 0
        /\ ret.forward[1] <= ret.forward[2]
        /\ (input.str1 = <<>> \/ input.str2 = <<>>) => ret.forward[1] = 0

---------------------------------------------------------------------------
(* Properties of the quiz attempt grader: completion, order *)

\* C22: provided every call of the external model eventually resolves,
\* rejects or times out, a gradeQuizAttempt call on valid input eventually
\* returns a result in which every question has a graded answer with marks,
\* whatever attempts fail
C22_GradedToCompletion ==
    (pc = "grading") ~>
        (/\ Returned
         /\ Len(ret.gradedAnswers) = Len(input.questions.items)
         /\ \A i \in DOMAIN ret.gradedAnswers :
               /\ ret.gradedAnswers[i].marks >= 0
               /\ ret.gradedAnswers[i].marks <= MaxOf(input.questions.items[i]))

\* the call returned although every attempt of both questions had failed
C22_Witness ==
    /\ Returned
    /\ Len(tasks) = 2
    /\ \A i \in DOMAIN tasks : AllAttemptsFailed(tasks[i])
    /\ metrics.fallbackUsed = 2
    /\ Len(ret.gradedAnswers) = 2

\* C23: a gradeQuizAttempt call increments totalGraded by exactly one and
\* exactly one of successfulGradings (the call returned) and failedGradings
\* (the call failed) by exactly one, so that totalGraded =
\* successfulGradings + failedGradings after the call
C23_OneCountPerCall ==
    (pc \in {"returned", "thrown"}) =>
        /\ metrics.totalGraded = 1
        /\ pc = "returned" =>
              (metrics.successfulGradings = 1 /\ metrics.failedGradings = 0)
        /\ pc = "thrown" =>
              (metrics.successfulGradings = 0 /\ metrics.failedGradings = 1)
        /\ metrics.totalGraded =
              metrics.successfulGradings + metrics.failedGradings

\* the graded answer belongs to the i-th question and the i-th answer
AlignedWith(gradedAnswer, i) ==
    /\ gradedAnswer.correctAnswer = input.questions.items[i].answer
    /\ gradedAnswer.studentAnswer =
          OrDefault(input.studentAnswers.items[i], StrV(<<>>))

\* C24: the gradings of the questions of one call run concurrently; in
\* whatever order they complete or fail, gradedAnswers[i] is the graded
\* answer of questions[i] with studentAnswers[i], and the call returns only
\* when every task has settled
C24_PositionAlignedWhateverOrder ==
    /\ pc = "grading" =>
          \A i \in DOMAIN tasks : AlignedWith(tasks[i].gradedAnswer, i)
    /\ Returned =>
          /\ DOMAIN ret.gradedAnswers = DOMAIN input.questions.items
          /\ \A i \in DOMAIN tasks :
                /\ tasks[i].pc \in {"fulfilled", "rejected"}
                /\ AlignedWith(ret.gradedAnswers[i], i)
                /\ tasks[i].pc = "fulfilled" =>
                      ret.gradedAnswers[i] = tasks[i].gradedAnswer
                /\ ret.gradedAnswers[i] \in
                      GradedAlone(input.questions.items[i],
                                  input.studentAnswers.items[i])

\* the grading of the second question has completed while the first call
\* of the model for the first question is still awaited
C24_Witness ==
    /\ pc = "grading"
    /\ Len(tasks) = 2
    /\ tasks[1].pc = "ai"
    /\ tasks[1].aiCalls = 1
    /\ tasks[2].pc = "fulfilled"
    /\ tasks[2].failed = 1
    /\ tasks[2].reply # NoReply
    /\ input.questions.items[1] # input.questions.items[2]

\* the model has not delivered a complete response when the timer fires
TimedOut(outcome) == outcome.kind = "timeout"

\* C25: every attempt is bounded by the timeout: an attempt whose response
\* is not complete when the timeout elapses counts as failed and is retried
\* while attempts remain, so that no attempt blocks _gradeWithAI for ever
C25_TimeoutBoundsEveryAttempt ==
    /\ [](DescriptiveCalled =>
            /\ \A k \in 1..(tasks[1].aiCalls - 1) :
                  TimedOut(input.script[k]) => tasks[1].failed >= k
            /\ (tasks[1].pc = "fulfilled" /\ TimedOut(ScriptedOutcome)) =>
                  /\ tasks[1].reply = NoReply
                  /\ tasks[1].failed = tasks[1].aiCalls
                  /\ tasks[1].aiCalls = maxRetries + 1)
    /\ (pc = "unit") ~> (pc = "descriptive_graded")

\* the first call timed out, the retry was answered and its grading returned
C25_Witness ==
    /\ pc = "descriptive_graded"
    /\ TimedOut(input.script[1])
    /\ input.script[2] = Json(BoolV(TRUE), NumV(MaxOf(TheQuestion)), Feedback)
    /\ tasks[1].failed = 1
    /\ tasks[1].aiCalls = 2
    /\ tasks[1].reply = input.script[2]
    /\ ret.marks = MaxOf(TheQuestion)

\* the stored document of the attempt the requests are about
TheAttempt == attempts[1]

\* C26: an attempt is graded at most once: once the stored status is
\* 'submitted' or 'graded', no request changes the stored status, answers,
\* totalMarks or percentage any more, however the requests interleave
C26_GradedAtMostOnce ==
    [][(pc = "routes" /\ AlreadySubmitted(TheAttempt)) =>
          /\ attempts'[1].status = TheAttempt.status
          /\ attempts'[1].answers = TheAttempt.answers
          /\ attempts'[1].totalMarks = TheAttempt.totalMarks
          /\ attempts'[1].percentage = TheAttempt.percentage]_vars

\* C27: in every state of an attempt warningCount is at most the threshold
\* 4, and isCheated is true exactly when warningCount has reached it
C27_WarningCounterAndFlag ==
    pc = "routes" =>
        /\ TheAttempt.warningCount <= threshold
        /\ TheAttempt.isCheated <=> (TheAttempt.warningCount >= threshold)

\* C28: an attempt stored as cheated has totalMarks 0 and percentage 0 and
\* is never graded with a positive score
C28_CheatedScoresZero ==
    (pc = "routes" /\ TheAttempt.isCheated) =>
        /\ TheAttempt.totalMarks = NumV(0)
        /\ TheAttempt.percentage = NumV(0)
        /\ ~(TheAttempt.status = "graded" /\ TheAttempt.totalMarks # NumV(0))


\* no share request so far asked for forceResend
NoForceResend == \A k \in DOMAIN requests : ~requests[k].forceResend

\* the invitations delivered to an email
Delivered(email) == { k \in DOMAIN outbox : outbox[k].email = email }

\* the email the pass about to run is for, and its stored attempts
PassEmail == NormaliseEmail(LastRequest.studentEmails[LastRequest.i])
StoredFor(email) == { k \in DOMAIN attempts : attempts[k].studentEmail = email }

\* at most one attempt is stored for an email
OneAttemptPerEmail ==
    \A k \in DOMAIN attempts : StoredFor(attempts[k].studentEmail) = {k}

\* without forceResend an email receives at most one invitation
DeliveredAtMostOnce ==
    NoForceResend =>
        \A k \in DOMAIN outbox : Delivered(outbox[k].email) = {k}

\* a pass without forceResend for an email whose attempt is stored with
\* emailSent true reports it under alreadySent with the stored token and
\* changes neither the attempts nor the outbox
AlreadySentReported ==
    (/\ ~ShareIdle
     /\ ~LastRequest.forceResend
     /\ \E k \in StoredFor(PassEmail) : attempts[k].emailSent) =>
        /\ attempts' = attempts
        /\ outbox' = outbox
        /\ \E k \in StoredFor(PassEmail) :
              requests'[Len(requests)].alreadySent =
                  Append(LastRequest.alreadySent,
                         [email |-> PassEmail,
                          token |-> attempts[k].uniqueToken])

\* a pass with forceResend for an email with a stored attempt, unless its
\* save fails, stores a token that was not in use, and the mail it
\* delivers carries that token
ForceResendRenews ==
    (/\ ~ShareIdle
     /\ LastRequest.forceResend
     /\ StoredFor(PassEmail) # {}
     /\ requests'[Len(requests)].pc # "error") =>
        \E k \in StoredFor(PassEmail) :
            /\ attempts'[k].uniqueToken \notin Tokens(attempts)
            /\ outbox' # outbox =>
                  outbox' = Append(outbox,
                                   [email |-> PassEmail,
                                    uniqueToken |-> attempts'[k].uniqueToken,
                                    forceResend |-> TRUE])

\* C29: over the share requests of a quiz at most one attempt is stored per
\* student email; without forceResend an invitation is delivered at most
\* once per email, and an email whose attempt has emailSent true is
\* reported under alreadySent with its token unchanged and nothing is
\* sent; with forceResend a new token replaces the old one and the new
\* mail carries it
C29_InvitedAtMostOnce ==
    /\ [](pc = "share" => (OneAttemptPerEmail /\ DeliveredAtMostOnce))
    /\ [][pc = "share" => (AlreadySentReported /\ ForceResendRenews)]_vars


\* the student gave no answer: a missing entry or the empty string
NoAnswerGiven(studentAnswer) ==
    studentAnswer = Undefined \/ studentAnswer = StrV(<<>>)

\* C30: an MCQ question the student gave no answer to is never graded
\* correct and never earns marks, whatever its expected answer, an empty
\* or missing one included
C30_NoAnswerNeverCorrect ==
    (pc = "graded" /\ NoAnswerGiven(input.studentAnswer)) =>
        /\ ret.isCorrect = FALSE
        /\ ret.marks = 0


=============================================================================
